---- MODULE Spec2Model ----
(***************************************************************************)
(* A model of the SynapticOS Trinity orchestration code:                   *)
(*   - QuantumOrchestrator (quantum_orchestrator.py): the task queue, the  *)
(*     orchestration loop coroutine, the consciousness monitor thread and  *)
(*     the live QuantumState;                                              *)
(*   - TrinityAIOrchestrator (trinity_api_server.py): process_request with *)
(*     its response cache and agent registry, run by concurrent request    *)
(*     coroutines.                                                         *)
(*                                                                         *)
(* Floats are fixed-point integers in units of 1/Scale (1.0 = Scale).      *)
(* Coroutines of one event loop interleave only at an await that really    *)
(* suspends; the monitor thread interleaves everywhere.                    *)
(***************************************************************************)
EXTENDS Integers, Sequences, FiniteSets, TLC

VARIABLES
    \* ---- QuantumOrchestrator ----
    tasks,          \* the AITask objects created so far: task_id -> fields
    task_queue,     \* self.task_queue (asyncio.Queue), a sequence of task ids
    result_store,   \* self.result_store: task_id -> entry
    active_tasks,   \* self.active_tasks (its key set)
    quantum_state,  \* self.quantum_state (None until start_orchestrator)
    is_running,     \* self.is_running
    pc,             \* position of the _orchestration_loop coroutine
    cur,            \* the task _execute_ai_task is working on (0: none)
    submits,        \* number of submit_task calls so far (bounded)
    upd,            \* the updates of quantum_state taken statement by statement:
                    \* the position and the value read of the monitor thread's
                    \* tick and of the loop's event update, and how many of
                    \* each have run to their end
    db,             \* the consciousness database: the row of quantum_states for
                    \* the state's id, the rows of ai_tasks, the number of rows
                    \* of learning_experiences, and the number of writes that
                    \* raised and were logged
    \* ---- TrinityAIOrchestrator ----
    agents,             \* self.agents: name -> [status, processed_requests, error_count]
    total_processed,    \* self.consciousness_state.total_processed
    response_cache,     \* self.response_cache: cache_key -> response
    reqs,               \* the process_request coroutines: id -> [pc, payload, ...]
    clock               \* datetime.now(), a logical time

qvars == <<tasks, task_queue, result_store, active_tasks, quantum_state,
           is_running, pc, cur, submits, upd, db>>
tvars == <<agents, total_processed, response_cache, reqs, clock>>
vars == <<tasks, task_queue, result_store, active_tasks, quantum_state,
          is_running, pc, cur, submits, upd, db,
          agents, total_processed, response_cache, reqs, clock>>

-----------------------------------------------------------------------------
(* Bounds of the model *)

MaxTasks == 2       \* AITask objects created
MaxSubmits == 2     \* submit_task calls (an object may be submitted again)
MaxTicks == 1       \* monitor ticks in the task specification
MaxReqs == 3        \* process_request calls
MaxClock == 2       \* distinct instants of datetime.now()
MaxPromptLen == 2   \* words of a prompt given to _route_request alone
MaxRaceTicks == 2   \* ticks taken statement by statement
MaxRaceEvents == 2  \* event updates taken statement by statement
MaxRows == 3        \* rows of learning_experiences told apart ("MaxRows or more")

-----------------------------------------------------------------------------
(* QuantumState: fixed-point metrics *)

Scale == 10000

Min(a, b) == IF a <= b THEN a ELSE b
Max(a, b) == IF a >= b THEN a ELSE b

Regions == {"prefrontal_cortex", "hippocampus", "amygdala", "neural_networks"}

NoState == [state_id |-> "None"]

\* initialize_quantum_state: 0.7, 0.8, {0.6, 0.4, 0.3, 0.8}, 0.75, 0.1
initialize_quantum_state ==
    [consciousness_level |-> 7000,
     quantum_coherence   |-> 8000,
     neural_activity     |-> [r \in Regions |->
                                CASE r = "prefrontal_cortex" -> 6000
                                  [] r = "hippocampus"       -> 4000
                                  [] r = "amygdala"          -> 3000
                                  [] r = "neural_networks"   -> 8000],
     memory_coherence    |-> 7500,
     learning_velocity   |-> 1000,
     state_id            |-> "uuid"]

\* x * num / den rounded toward zero (the float product, to the model's unit)
MulDiv(x, num, den) ==
    IF x * num >= 0 THEN (x * num) \div den ELSE -((-(x * num)) \div den)

\* a tick that forgets the min(1.0, ...) and max(0, ...) of the metrics
TickWithoutClamp(qs) ==
    [qs EXCEPT
        !.consciousness_level = @ + 10,
        !.quantum_coherence   = @ + 5,
        !.neural_activity     = [r \in Regions |-> @[r] + MulDiv(5000 - @[r], 1, 100)]]

\* _update_consciousness_metrics, after its None check: +0.001 and +0.0005
\* capped at 1.0, and every region pulled 1% of the way to 0.5 (the timestamp
\* is not part of the model)
_update_consciousness_metrics(qs) ==
    [qs EXCEPT
        !.consciousness_level = Min(Scale, @ + 10),
        !.quantum_coherence   = Min(Scale, @ + 5),
        !.neural_activity     = [r \in Regions |->
              Max(0, Min(Scale, @[r] + MulDiv(5000 - @[r], 1, 100)))]]

\* an event update that scales by 0.999 instead of 1.001
EventUpdateDecaying(qs, active_count) ==
    IF active_count > 0
    THEN [qs EXCEPT !.learning_velocity = Min(Scale, MulDiv(@, 999, 1000))]
    ELSE qs

\* _update_quantum_state: with tasks in active_tasks, learning_velocity * 1.001
\* capped at 1.0
_update_quantum_state(qs, active_count) ==
    IF active_count > 0
    THEN [qs EXCEPT !.learning_velocity = Min(Scale, MulDiv(@, 1001, 1000))]
    ELSE qs

-----------------------------------------------------------------------------
(* QuantumState: the two updates, statement by statement *)

\* nothing read (None is not a number of the model)
Unread == -1

\* no update is in progress and none has run
NoUpdate == [tick_at |-> 0, tick_local |-> Unread, ticks |-> 0,
             event_local |-> Unread, events |-> 0]

\* the attributes _update_consciousness_metrics assigns, in the order of its
\* statements; neural_activity is a dict built in this order of regions
TickTargets == <<"consciousness_level", "quantum_coherence",
                 "prefrontal_cortex", "hippocampus", "amygdala", "neural_networks">>

\* the value the right-hand side of a statement of the tick reads
TickReads(qs, target) ==
    IF target \in Regions THEN qs.neural_activity[target] ELSE qs[target]

\* the value a statement of the tick computes from the value it read
TickValue(target, read) ==
    CASE target = "consciousness_level" -> Min(Scale, read + 10)
      [] target = "quantum_coherence"   -> Min(Scale, read + 5)
      [] OTHER -> Max(0, Min(Scale, read + MulDiv(5000 - read, 1, 100)))

\* the assignment of a statement of the tick
TickAssigns(qs, target, value) ==
    IF target \in Regions
    THEN [qs EXCEPT !.neural_activity[target] = value]
    ELSE [qs EXCEPT ![target] = value]

\* an event update working on the attribute the tick starts with
EventFieldOfTick == "consciousness_level"

\* the attribute _update_quantum_state reads and assigns
EventField == "learning_velocity"

\* the value _update_quantum_state computes from the value it read
EventValue(read) == Min(Scale, MulDiv(read, 1001, 1000))

\* the statements of a tick from the i-th on, run without interruption
RECURSIVE TickFrom(_, _)
TickFrom(qs, i) ==
    IF i > Len(TickTargets) THEN qs
    ELSE TickFrom(TickAssigns(qs, TickTargets[i],
                              TickValue(TickTargets[i], TickReads(qs, TickTargets[i]))),
                  i + 1)

\* a whole tick, and a whole event update with tasks in active_tasks
WholeTick(qs) == TickFrom(qs, 1)
WholeEvent(qs) == [qs EXCEPT ![EventField] = EventValue(qs[EventField])]

-----------------------------------------------------------------------------
(* The consciousness database *)

\* initialize_consciousness_db on a new database: three empty tables. A state
\* has one id for its life, so quantum_states has at most the row of that id
\* (NoState: no row)
initialize_consciousness_db ==
    [quantum_states |-> NoState, ai_tasks |-> {}, learning_experiences |-> 0,
     failed_writes |-> 0]

\* _persist_quantum_state: INSERT OR REPLACE of the row of qs.state_id; a write
\* that raises is logged by except Exception and writes nothing
_persist_quantum_state(d, qs, ok) ==
    IF ok THEN [d EXCEPT !.quantum_states = qs]
    ELSE [d EXCEPT !.failed_writes = @ + 1]

\* _learn_from_execution: INSERT of one row under a new uuid (the rows are
\* counted, up to MaxRows); a write that raises is logged by except Exception
\* and writes nothing
_learn_from_execution(d, ok) ==
    IF ok THEN [d EXCEPT !.learning_experiences = Min(MaxRows, @ + 1)]
    ELSE [d EXCEPT !.failed_writes = @ + 1]

-----------------------------------------------------------------------------
(* AITask and the backends of _route_to_ai_model *)

TaskIds == 1..MaxTasks

\* the priorities, hints and dependency lists a caller builds tasks from;
\* "None" is a task built without a model_preference
Priorities == {1, 2}
ModelInputs == {"None", "CLAUDE_SONNET", "GPT4_TURBO"}

\* _route_to_ai_model: the inference operation a model_preference selects
_route_to_ai_model(model) ==
    CASE model = "TRINITY_HYBRID" -> "_trinity_hybrid_inference"
      [] model = "CLAUDE_SONNET"  -> "_claude_inference"
      [] model = "LOCAL_LLAMA"    -> "_local_llama_inference"
      [] OTHER                    -> "_fallback_inference"

\* the inference operations that await asyncio.sleep; _fallback_inference
\* returns without suspending
Suspends(backend) == backend # "_fallback_inference"

NoResult == [kind |-> "None"]

\* self.config['max_workers'], the size of the worker pool: the default is
\* cpu_count() * 2 and a configuration file may set it; 1 is the least size
\* ProcessPoolExecutor takes
max_workers == 1

\* the event loop is free to run another coroutine (submit_task, shutdown):
\* the orchestration loop has not been started, has returned, sleeps, or is
\* suspended in a backend's asyncio.sleep
LoopSuspended ==
    \/ pc \in {"init", "sleep", "errsleep", "done"}
    \/ pc = "exec" /\ Suspends(_route_to_ai_model(tasks[cur].model_preference))

-----------------------------------------------------------------------------
(* QuantumOrchestrator: the caller's operations *)

\* a caller builds a new AITask (status "pending" by default) and awaits
\* submit_task: the queue has no bound, so put never suspends and never refuses
SubmitNew(pr, model, deps) ==
    /\ LoopSuspended
    /\ submits < MaxSubmits
    /\ Cardinality(DOMAIN tasks) < MaxTasks
    /\ LET id == Cardinality(DOMAIN tasks) + 1 IN
         /\ tasks' = tasks @@ (id :> [priority |-> pr, model_preference |-> model,
                                      dependencies |-> deps, status |-> "pending"])
         /\ task_queue' = Append(task_queue, id)
    /\ submits' = submits + 1
    /\ UNCHANGED <<result_store, active_tasks, quantum_state, is_running, pc, cur>>
    /\ UNCHANGED <<tvars, upd, db>>

\* submit_task called again with an AITask object it was given before
SubmitAgain(t) ==
    /\ LoopSuspended
    /\ submits < MaxSubmits
    /\ t \in DOMAIN tasks
    /\ task_queue' = Append(task_queue, t)
    /\ submits' = submits + 1
    /\ UNCHANGED <<tasks, result_store, active_tasks, quantum_state, is_running, pc, cur>>
    /\ UNCHANGED <<tvars, upd, db>>

\* start_orchestrator up to the first step of _orchestration_loop
start_orchestrator ==
    /\ pc = "init"
    /\ is_running' = TRUE
    /\ quantum_state' = initialize_quantum_state
    /\ pc' = "top"
    /\ UNCHANGED <<tasks, task_queue, result_store, active_tasks, cur, submits>>
    /\ UNCHANGED <<tvars, upd, db>>

\* shutdown: is_running = False (the pool shutdown and the thread join change
\* no state of the model)
shutdown ==
    /\ LoopSuspended
    /\ pc # "init"
    /\ is_running
    /\ is_running' = FALSE
    /\ UNCHANGED <<tasks, task_queue, result_store, active_tasks, quantum_state,
                   pc, cur, submits>>
    /\ UNCHANGED <<tvars, upd, db>>

-----------------------------------------------------------------------------
(* QuantumOrchestrator: the _orchestration_loop coroutine *)

\* while self.is_running
LoopTop ==
    /\ pc = "top"
    /\ pc' = IF is_running THEN "queue" ELSE "done"
    /\ UNCHANGED <<tasks, task_queue, result_store, active_tasks, quantum_state,
                   is_running, cur, submits>>
    /\ UNCHANGED <<tvars, upd, db>>

\* _process_task_queue: the queue is empty, the while loop ends
QueueEmpty ==
    /\ pc = "queue"
    /\ task_queue = <<>>
    /\ pc' = "update"
    /\ UNCHANGED <<tasks, task_queue, result_store, active_tasks, quantum_state,
                   is_running, cur, submits>>
    /\ UNCHANGED <<tvars, upd, db>>

\* a queue handing out the item put last
DequeuedNewest(q) == q[Len(q)]

\* task_queue.get(): asyncio.Queue is first in, first out
Dequeued(q) == Head(q)
Remaining(q) == Tail(q)

\* _process_task_queue takes a task and _execute_ai_task starts on it. Its first
\* line logs task.model_preference.value, outside the try: with no
\* model_preference the AttributeError leaves _execute_ai_task and
\* _process_task_queue and is caught by the loop's except (sleep 1 s)
DequeueRaise ==
    /\ pc = "queue"
    /\ task_queue # <<>>
    /\ tasks[Dequeued(task_queue)].model_preference = "None"
    /\ task_queue' = Remaining(task_queue)
    /\ pc' = "errsleep"
    /\ UNCHANGED <<tasks, result_store, active_tasks, quantum_state, is_running, cur, submits>>
    /\ UNCHANGED <<tvars, upd, db>>

\* the task is made running and its execution left to run on its own, the
\* while loop going on to the next task without awaiting it
DequeueRunDetached ==
    /\ pc = "queue"
    /\ task_queue # <<>>
    /\ tasks[Dequeued(task_queue)].model_preference # "None"
    /\ task_queue' = Remaining(task_queue)
    /\ active_tasks' = active_tasks \cup {Dequeued(task_queue)}
    /\ tasks' = [tasks EXCEPT ![Dequeued(task_queue)].status = "running"]
    /\ UNCHANGED <<result_store, quantum_state, is_running, pc, cur, submits>>
    /\ UNCHANGED <<tvars, upd, db>>

\* ... otherwise the task enters active_tasks with status "running" and the
\* backend's inference operation is called
DequeueRun ==
    /\ pc = "queue"
    /\ task_queue # <<>>
    /\ tasks[Dequeued(task_queue)].model_preference # "None"
    /\ task_queue' = Remaining(task_queue)
    /\ cur' = Dequeued(task_queue)
    /\ active_tasks' = active_tasks \cup {Dequeued(task_queue)}
    /\ tasks' = [tasks EXCEPT ![Dequeued(task_queue)].status = "running"]
    /\ pc' = "exec"
    /\ UNCHANGED <<result_store, quantum_state, is_running, submits>>
    /\ UNCHANGED <<tvars, upd, db>>

\* _execute_ai_task with a _learn_from_execution that logs a failed write and
\* raises it again, into the except branch of _execute_ai_task
ExecCompleteLearnRaises(ok) ==
    /\ pc = "exec"
    /\ result_store' = [result_store EXCEPT ![cur] =
            IF ok THEN [kind |-> "result",
                        model |-> _route_to_ai_model(tasks[cur].model_preference),
                        quantum_state |-> quantum_state]
            ELSE [kind |-> "error"]]
    /\ tasks' = [tasks EXCEPT ![cur].status = IF ok THEN "completed" ELSE "failed"]
    /\ db' = _learn_from_execution(db, ok)
    /\ cur' = 0
    /\ pc' = "queue"
    /\ UNCHANGED <<task_queue, active_tasks, quantum_state, is_running, submits>>
    /\ UNCHANGED <<tvars, upd>>

\* the inference returns: the result is stored with a copy of the quantum state
\* (to_dict), the status becomes "completed", and _learn_from_execution
\* writes its row (ok) or fails to
ExecCompleteWith(ok) ==
    /\ pc = "exec"
    /\ result_store' = [result_store EXCEPT ![cur] =
            [kind |-> "result",
             model |-> _route_to_ai_model(tasks[cur].model_preference),
             quantum_state |-> quantum_state]]
    /\ tasks' = [tasks EXCEPT ![cur].status = "completed"]
    /\ db' = _learn_from_execution(db, ok)
    /\ cur' = 0
    /\ pc' = "queue"
    /\ UNCHANGED <<task_queue, active_tasks, quantum_state, is_running, submits>>
    /\ UNCHANGED <<tvars, upd>>

\* ... with the database taking the write
ExecComplete == ExecCompleteWith(TRUE)

\* ... with the write raising (the file is locked, the disk is full)
ExecCompleteWriteFails == ExecCompleteWith(FALSE)

\* the inference raises: except Exception stores the error, status "failed"
ExecFail ==
    /\ pc = "exec"
    /\ tasks' = [tasks EXCEPT ![cur].status = "failed"]
    /\ result_store' = [result_store EXCEPT ![cur] = [kind |-> "error"]]
    /\ cur' = 0
    /\ pc' = "queue"
    /\ UNCHANGED <<task_queue, active_tasks, quantum_state, is_running, submits>>
    /\ UNCHANGED <<tvars, upd, db>>

\* await self._update_quantum_state() (then _evolve_consciousness: pass)
UpdateQuantumState ==
    /\ pc = "update"
    /\ quantum_state' = _update_quantum_state(quantum_state, Cardinality(active_tasks))
    /\ pc' = "cleanup"
    /\ UNCHANGED <<tasks, task_queue, result_store, active_tasks, is_running, cur, submits>>
    /\ UNCHANGED <<tvars, upd, db>>

\* _cleanup_tasks, then asyncio.sleep(0.1)
_cleanup_tasks ==
    /\ pc = "cleanup"
    /\ active_tasks' = {t \in active_tasks : tasks[t].status \notin {"completed", "failed"}}
    /\ pc' = "sleep"
    /\ UNCHANGED <<tasks, task_queue, result_store, quantum_state, is_running, cur, submits>>
    /\ UNCHANGED <<tvars, upd, db>>

\* the sleep of the iteration (0.1 s), or of the except branch (1 s), ends
LoopWake ==
    /\ pc \in {"sleep", "errsleep"}
    /\ pc' = "top"
    /\ UNCHANGED <<tasks, task_queue, result_store, active_tasks, quantum_state,
                   is_running, cur, submits>>
    /\ UNCHANGED <<tvars, upd, db>>

-----------------------------------------------------------------------------
(* QuantumOrchestrator: the consciousness monitor thread *)

\* one pass of _consciousness_monitor_loop: while self.is_running,
\* _update_consciousness_metrics and _persist_quantum_state (the thread is
\* started by start_orchestrator, after quantum_state is set). The tick writes consciousness_level,
\* quantum_coherence and neural_activity, the loop writes learning_velocity
\* alone, so the statements of a tick are taken as one step.
MonitorTickWith(ok) ==
    /\ is_running
    /\ quantum_state # NoState
    /\ quantum_state.consciousness_level
         < initialize_quantum_state.consciousness_level + MaxTicks * 10
    /\ quantum_state' = _update_consciousness_metrics(quantum_state)
    /\ db' = _persist_quantum_state(db, quantum_state', ok)
    /\ UNCHANGED <<tasks, task_queue, result_store, active_tasks, is_running,
                   pc, cur, submits>>
    /\ UNCHANGED <<tvars, upd>>

\* ... with the database taking the write
MonitorTick == MonitorTickWith(TRUE)

\* ... with the write raising
MonitorTickWriteFails == MonitorTickWith(FALSE)

-----------------------------------------------------------------------------
(* TrinityAIOrchestrator: request payloads *)

\* A payload is the JSON object of the request in the order its fields were
\* written: a sequence of <<key, value>> with distinct keys. The value of
\* "prompt" is a string, modelled as a sequence of words.
Field(k, v) == <<k, v>>

PayloadInputs ==
    { << Field("prompt", <<"Analyze", "art">>), Field("type", "general") >>,
      << Field("type", "general"), Field("prompt", <<"Analyze", "art">>) >>,
      << Field("prompt", <<"hello">>) >>,
      << Field("prompt", <<"find">>), Field("type", "general") >> }

\* request_data.get(k, default)
Get(p, k, default) ==
    IF \E i \in 1..Len(p) : p[i][1] = k
    THEN p[CHOOSE i \in 1..Len(p) : p[i][1] = k][2]
    ELSE default

\* the keys of the payloads, in the order sort_keys puts them
SortedKeys == <<"prompt", "type">>

\* json.dumps(request_data, sort_keys=True): the fields in key order
RECURSIVE DumpsFrom(_, _)
DumpsFrom(p, i) ==
    IF i > Len(SortedKeys) THEN <<>>
    ELSE IF \E j \in 1..Len(p) : p[j][1] = SortedKeys[i]
         THEN <<Field(SortedKeys[i], Get(p, SortedKeys[i], "")) >> \o DumpsFrom(p, i + 1)
         ELSE DumpsFrom(p, i + 1)

json_dumps_sort_keys(p) == DumpsFrom(p, 1)

\* cache_key = md5(json.dumps(request_data, sort_keys=True)): the digest stands
\* for the text it is taken of (no two texts of the model collide)
cache_key(p) == json_dumps_sort_keys(p)

\* str.lower() of a word
Lower(w) ==
    CASE w = "Analyze" -> "analyze"
      [] w = "Start" -> "start"
      [] OTHER -> w

\* the keywords of the routing table
Keywords == {"analyze", "strategy", "plan", "code",
             "creative", "image", "design", "art",
             "search", "fact", "research", "find"}

\* the keywords that are substrings of a lowercase word: the word itself if it
\* is a keyword, and the keywords inside a longer word
KeywordsIn(w) ==
    CASE w = "start" -> {"art"}
      [] w = "research" -> {"research", "search"}
      [] w \in Keywords -> {w}
      [] OTHER -> {}

\* keyword in prompt: the keyword is a substring of the lowercased prompt (no
\* keyword has a space, so it lies inside one word)
Contains(prompt, keyword) ==
    \E i \in 1..Len(prompt) : keyword \in KeywordsIn(Lower(prompt[i]))

AnyKeyword(prompt, keywords) == \E k \in keywords : Contains(prompt, k)

\* _route_request with the table read from its last row to its first
RouteLastMatch(p) ==
    LET prompt == Get(p, "prompt", <<>>) IN
    IF AnyKeyword(prompt, {"search", "fact", "research", "find"}) THEN "perplexity"
    ELSE IF AnyKeyword(prompt, {"creative", "image", "design", "art"}) THEN "gemini"
    ELSE "claude"

\* _route_request
_route_request(p) ==
    LET prompt == Get(p, "prompt", <<>>) IN
    IF AnyKeyword(prompt, {"analyze", "strategy", "plan", "code"}) THEN "claude"
    ELSE IF AnyKeyword(prompt, {"creative", "image", "design", "art"}) THEN "gemini"
    ELSE IF AnyKeyword(prompt, {"search", "fact", "research", "find"}) THEN "perplexity"
    ELSE "claude"

AgentNames == {"claude", "gemini", "perplexity"}

\* _generate_response: the text depends on the agent and the prompt, the
\* timestamp is datetime.now()
_generate_response(agent_name, p, now) ==
    [agent |-> agent_name, response |-> Get(p, "prompt", <<>>), timestamp |-> now]

NoResponse == [agent |-> "None"]

ReqIds == 1..MaxReqs

IdleReq == [pc |-> "idle", payload |-> <<>>, agent_name |-> "None",
            response |-> NoResponse]

-----------------------------------------------------------------------------
(* TrinityAIOrchestrator: process_request, one coroutine per request *)

\* a cache hit that is counted in total_processed
ProcessRequestHitCounted(r, p) ==
    /\ reqs[r].pc = "idle"
    /\ \A q \in ReqIds : q < r => reqs[q].pc # "idle"
    /\ cache_key(p) \in DOMAIN response_cache
    /\ reqs' = [reqs EXCEPT ![r] = [pc |-> "hit", payload |-> p, agent_name |-> "None",
                                    response |-> response_cache[cache_key(p)]]]
    /\ total_processed' = total_processed + 1
    /\ UNCHANGED <<agents, response_cache, clock>>
    /\ UNCHANGED qvars

\* process_request up to its first suspension: the cache check, and on a hit
\* the return of the cached response
ProcessRequestHit(r, p) ==
    /\ reqs[r].pc = "idle"
    /\ \A q \in ReqIds : q < r => reqs[q].pc # "idle"
    /\ cache_key(p) \in DOMAIN response_cache
    /\ reqs' = [reqs EXCEPT ![r] = [pc |-> "hit", payload |-> p, agent_name |-> "None",
                                    response |-> response_cache[cache_key(p)]]]
    /\ UNCHANGED <<agents, total_processed, response_cache, clock>>
    /\ UNCHANGED qvars

\* ... on a miss: _route_request, the agent becomes PROCESSING, and the
\* coroutine suspends in asyncio.sleep(processing_time)
ProcessRequestDispatch(r, p) ==
    /\ reqs[r].pc = "idle"
    /\ \A q \in ReqIds : q < r => reqs[q].pc # "idle"
    /\ cache_key(p) \notin DOMAIN response_cache
    /\ LET agent_name == _route_request(p) IN
         IF agent_name \notin DOMAIN agents
         THEN /\ reqs' = [reqs EXCEPT ![r] = [pc |-> "raised", payload |-> p,
                             agent_name |-> agent_name, response |-> NoResponse]]
              /\ UNCHANGED agents
         ELSE /\ agents' = [agents EXCEPT ![agent_name].status = "PROCESSING"]
              /\ reqs' = [reqs EXCEPT ![r] = [pc |-> "await", payload |-> p,
                             agent_name |-> agent_name, response |-> NoResponse]]
    /\ UNCHANGED <<total_processed, response_cache, clock>>
    /\ UNCHANGED qvars

\* a success that is cached and returned without being counted for the agent
RequestSucceedsUncounted(r) ==
    /\ reqs[r].pc = "await"
    /\ LET a == reqs[r].agent_name
           response == _generate_response(a, reqs[r].payload, clock) IN
         /\ agents' = [agents EXCEPT ![a].status = "ONLINE"]
         /\ total_processed' = total_processed + 1
         /\ response_cache' = [k \in DOMAIN response_cache \cup {cache_key(reqs[r].payload)} |->
                                 IF k = cache_key(reqs[r].payload) THEN response
                                 ELSE response_cache[k]]
         /\ reqs' = [reqs EXCEPT ![r].pc = "returned", ![r].response = response]
    /\ UNCHANGED clock
    /\ UNCHANGED qvars

\* the sleep ends and _generate_response returns: the counters, the agent's
\* status and the cache are updated and the response returned
RequestSucceeds(r) ==
    /\ reqs[r].pc = "await"
    /\ LET a == reqs[r].agent_name
           response == _generate_response(a, reqs[r].payload, clock) IN
         /\ agents' = [agents EXCEPT ![a].processed_requests = @ + 1,
                                     ![a].status = "ONLINE"]
         /\ total_processed' = total_processed + 1
         /\ response_cache' = [k \in DOMAIN response_cache \cup {cache_key(reqs[r].payload)} |->
                                 IF k = cache_key(reqs[r].payload) THEN response
                                 ELSE response_cache[k]]
         /\ reqs' = [reqs EXCEPT ![r].pc = "returned", ![r].response = response]
    /\ UNCHANGED clock
    /\ UNCHANGED qvars

\* the backend work raises: except Exception counts the error, sets the
\* agent's status to ERROR and raises again
RequestFails(r) ==
    /\ reqs[r].pc = "await"
    /\ agents' = [agents EXCEPT ![reqs[r].agent_name].error_count = @ + 1,
                                ![reqs[r].agent_name].status = "ERROR"]
    /\ reqs' = [reqs EXCEPT ![r].pc = "raised"]
    /\ UNCHANGED <<total_processed, response_cache, clock>>
    /\ UNCHANGED qvars

\* time passes: a later datetime.now() reads a later instant
TimePasses ==
    /\ clock < MaxClock
    /\ clock' = clock + 1
    /\ UNCHANGED <<agents, total_processed, response_cache, reqs>>
    /\ UNCHANGED qvars

-----------------------------------------------------------------------------
(* TrinityAIOrchestrator: health_check *)

\* self.consciousness_state as __init__ builds it; no code writes
\* awareness_level or quantum_coherence afterwards
consciousness_state == [awareness_level |-> Scale,
                        quantum_coherence |-> (95 * Scale) \div 100]

\* the statuses in which an agent counts as online
OnlineEquivalent == {"ONLINE", "PROCESSING"}

\* health_check counting the ONLINE agents alone
HealthCheckOnlineOnly ==
    LET healthy_agents == Cardinality({a \in DOMAIN agents : agents[a].status = "ONLINE"})
        is_healthy == /\ healthy_agents >= 2
                      /\ consciousness_state.awareness_level > Scale \div 2
                      /\ consciousness_state.quantum_coherence > (8 * Scale) \div 10
    IN [status |-> IF is_healthy THEN "healthy" ELSE "degraded",
        agents_online |-> healthy_agents,
        total_agents |-> Cardinality(DOMAIN agents)]

\* health_check: it has no await, so it reads one state of the orchestrator,
\* any state the request coroutines are suspended in
health_check ==
    LET healthy_agents ==
            Cardinality({a \in DOMAIN agents : agents[a].status \in OnlineEquivalent})
        is_healthy == /\ healthy_agents >= 2
                      /\ consciousness_state.awareness_level > Scale \div 2
                      /\ consciousness_state.quantum_coherence > (8 * Scale) \div 10
    IN [status |-> IF is_healthy THEN "healthy" ELSE "degraded",
        agents_online |-> healthy_agents,
        total_agents |-> Cardinality(DOMAIN agents)]

-----------------------------------------------------------------------------
(* Specifications *)

\* TrinityAIOrchestrator after __init__ and initialize_agents (init_app awaits
\* it before the server takes requests): three agents ONLINE
InitTrinity ==
    /\ agents = [a \in AgentNames |->
                    [status |-> "ONLINE", processed_requests |-> 0, error_count |-> 0]]
    /\ total_processed = 0
    /\ response_cache = <<>>
    /\ reqs = [r \in ReqIds |-> IdleReq]
    /\ clock = 0

\* QuantumOrchestrator after __init__
InitQuantum ==
    /\ tasks = <<>>
    /\ task_queue = <<>>
    /\ result_store = [t \in TaskIds |-> NoResult]
    /\ active_tasks = {}
    /\ quantum_state = NoState
    /\ is_running = FALSE
    /\ pc = "init"
    /\ cur = 0
    /\ submits = 0
    /\ upd = NoUpdate
    /\ db = initialize_consciousness_db

Init == InitQuantum /\ InitTrinity

\* the dependency lists tasks are built with: none, or one other task (the
\* next identifier, the first one for the last), which may not exist yet
DepInputs(id) == {{}, {(id % MaxTasks) + 1}}

\* the task pipeline of QuantumOrchestrator
Next ==
    \/ \E pr \in Priorities, model \in ModelInputs :
         \E deps \in DepInputs(Cardinality(DOMAIN tasks) + 1) : SubmitNew(pr, model, deps)
    \/ \E t \in TaskIds : SubmitAgain(t)
    \/ start_orchestrator
    \/ shutdown
    \/ LoopTop
    \/ QueueEmpty
    \/ DequeueRaise
    \/ DequeueRun
    \/ ExecComplete
    \/ ExecFail
    \/ UpdateQuantumState
    \/ _cleanup_tasks
    \/ LoopWake
    \/ MonitorTick

Spec == Init /\ [][Next]_vars

\* the concurrent process_request coroutines of TrinityAIOrchestrator
NextTrinity ==
    \/ \E r \in ReqIds, p \in PayloadInputs : ProcessRequestHit(r, p)
    \/ \E r \in ReqIds, p \in PayloadInputs : ProcessRequestDispatch(r, p)
    \/ \E r \in ReqIds : RequestSucceeds(r)
    \/ \E r \in ReqIds : RequestFails(r)
    \/ TimePasses

SpecTrinity == Init /\ [][NextTrinity]_vars

-----------------------------------------------------------------------------
(* _route_request applied to one payload *)

\* the words of the prompts
RouteWords == {"Analyze", "Start", "art", "find", "research", "code", "hello"}

\* the prompts of at most MaxPromptLen words
RoutePrompts == UNION {[1..n -> RouteWords] : n \in 0..MaxPromptLen}

\* the payloads: with a prompt, or without the key (get returns '')
RoutePayloads ==
    {<<Field("prompt", s)>> : s \in RoutePrompts} \cup {<<Field("type", "general")>>}

\* one request is about to be routed
InitRoute ==
    /\ InitQuantum
    /\ agents = [a \in AgentNames |->
                    [status |-> "ONLINE", processed_requests |-> 0, error_count |-> 0]]
    /\ total_processed = 0
    /\ response_cache = <<>>
    /\ clock = 0
    /\ \E p \in RoutePayloads :
          reqs = [r \in ReqIds |-> IF r = 1 THEN [IdleReq EXCEPT !.payload = p]
                                   ELSE IdleReq]

\* agent_name = self._route_request(request_data)
RouteCall ==
    /\ reqs[1].pc = "idle"
    /\ reqs' = [reqs EXCEPT ![1].pc = "routed",
                            ![1].agent_name = _route_request(reqs[1].payload)]
    /\ UNCHANGED <<agents, total_processed, response_cache, clock>>
    /\ UNCHANGED qvars

NextRoute == RouteCall

SpecRoute == InitRoute /\ [][NextRoute]_vars

-----------------------------------------------------------------------------
(* The live QuantumState under ticks and event updates alone *)

\* the orchestrator right after start_orchestrator has set is_running and
\* created the quantum state
InitState ==
    /\ tasks = <<>>
    /\ task_queue = <<>>
    /\ result_store = [t \in TaskIds |-> NoResult]
    /\ active_tasks = {}
    /\ quantum_state = initialize_quantum_state
    /\ is_running = TRUE
    /\ pc = "top"
    /\ cur = 0
    /\ submits = 0
    /\ upd = NoUpdate
    /\ db = initialize_consciousness_db
    /\ InitTrinity

\* a tick of the monitor thread, as often as the thread runs
StateTick ==
    /\ quantum_state' = _update_consciousness_metrics(quantum_state)
    /\ UNCHANGED <<tasks, task_queue, result_store, active_tasks, is_running,
                   pc, cur, submits>>
    /\ UNCHANGED <<tvars, upd, db>>

\* the loop's _update_quantum_state with active_count tasks in active_tasks
ActiveCounts == 0..2

StateEvent(active_count) ==
    /\ quantum_state' = _update_quantum_state(quantum_state, active_count)
    /\ UNCHANGED <<tasks, task_queue, result_store, active_tasks, is_running,
                   pc, cur, submits>>
    /\ UNCHANGED <<tvars, upd, db>>

NextState ==
    \/ StateTick
    \/ \E n \in ActiveCounts : StateEvent(n)

SpecState == InitState /\ [][NextState]_vars

-----------------------------------------------------------------------------
(* The monitor thread's tick against the loop's event update *)

\* the monitor thread evaluates the right-hand side of its next statement
TickRead ==
    /\ upd.tick_local = Unread
    /\ upd.ticks < MaxRaceTicks
    /\ upd' = [upd EXCEPT !.tick_local =
                  TickReads(quantum_state, TickTargets[upd.tick_at + 1])]
    /\ UNCHANGED <<tasks, task_queue, result_store, active_tasks, quantum_state,
                   is_running, pc, cur, submits, db>>
    /\ UNCHANGED tvars

\* ... and assigns the attribute; after the last statement the tick is over
TickWrite ==
    /\ upd.tick_local # Unread
    /\ LET target == TickTargets[upd.tick_at + 1] IN
         quantum_state' = TickAssigns(quantum_state, target,
                                      TickValue(target, upd.tick_local))
    /\ upd' = IF upd.tick_at + 1 = Len(TickTargets)
              THEN [upd EXCEPT !.tick_local = Unread, !.tick_at = 0, !.ticks = @ + 1]
              ELSE [upd EXCEPT !.tick_local = Unread, !.tick_at = @ + 1]
    /\ UNCHANGED <<tasks, task_queue, result_store, active_tasks,
                   is_running, pc, cur, submits, db>>
    /\ UNCHANGED tvars

\* the loop's _update_quantum_state, with tasks in active_tasks, evaluates
\* learning_velocity * 1.001 (with no active task it assigns nothing)
EventRead ==
    /\ upd.event_local = Unread
    /\ upd.events < MaxRaceEvents
    /\ upd' = [upd EXCEPT !.event_local = quantum_state[EventField]]
    /\ UNCHANGED <<tasks, task_queue, result_store, active_tasks, quantum_state,
                   is_running, pc, cur, submits, db>>
    /\ UNCHANGED tvars

\* ... and assigns learning_velocity
EventWrite ==
    /\ upd.event_local # Unread
    /\ quantum_state' = [quantum_state EXCEPT ![EventField] = EventValue(upd.event_local)]
    /\ upd' = [upd EXCEPT !.event_local = Unread, !.events = @ + 1]
    /\ UNCHANGED <<tasks, task_queue, result_store, active_tasks,
                   is_running, pc, cur, submits, db>>
    /\ UNCHANGED tvars

\* the thread is preempted between any two of these steps
NextRace ==
    \/ TickRead
    \/ TickWrite
    \/ EventRead
    \/ EventWrite

SpecRace == InitState /\ [][NextRace]_vars

-----------------------------------------------------------------------------
(* The task pipeline with a database whose writes may fail *)

\* tasks with every field, run by a backend that suspends, and database
\* writes that go through or raise
NextPersist ==
    \/ SubmitNew(1, "CLAUDE_SONNET", {})
    \/ start_orchestrator
    \/ shutdown
    \/ LoopTop
    \/ QueueEmpty
    \/ DequeueRun
    \/ ExecComplete
    \/ ExecCompleteWriteFails
    \/ ExecFail
    \/ UpdateQuantumState
    \/ _cleanup_tasks
    \/ LoopWake
    \/ MonitorTick
    \/ MonitorTickWriteFails

SpecPersist == Init /\ [][NextPersist]_vars

-----------------------------------------------------------------------------
(* The loop under callers that keep submitting *)

\* submit_task called while the loop is suspended in a task's backend call,
\* as often as the callers like (the queue of the model holds up to MaxTasks
\* entries; the task is one submitted before, so that the tasks stay finite)
SubmitWhileExecuting(t) ==
    /\ pc = "exec"
    /\ LoopSuspended
    /\ t \in DOMAIN tasks
    /\ Len(task_queue) < MaxTasks
    /\ task_queue' = Append(task_queue, t)
    /\ UNCHANGED <<tasks, result_store, active_tasks, quantum_state, is_running,
                   pc, cur, submits>>
    /\ UNCHANGED <<tvars, upd, db>>

\* the steps of the orchestration coroutine with tasks that have every field
StarveLoopStep ==
    \/ LoopTop
    \/ QueueEmpty
    \/ DequeueRun
    \/ ExecComplete
    \/ ExecFail
    \/ UpdateQuantumState
    \/ _cleanup_tasks
    \/ LoopWake

NextStarve ==
    \/ SubmitNew(1, "CLAUDE_SONNET", {})
    \/ \E t \in TaskIds : SubmitWhileExecuting(t)
    \/ start_orchestrator
    \/ StarveLoopStep

\* the event loop keeps running the orchestration coroutine; the callers
\* are free to submit or not
SpecStarve ==
    Init /\ [][NextStarve]_vars /\ WF_vars(start_orchestrator) /\ WF_vars(StarveLoopStep)

-----------------------------------------------------------------------------
(* The task pipeline under fair scheduling *)

\* the event loop keeps running the orchestration coroutine: every sleep
\* ends and every step that can be taken is taken
LoopStep ==
    \/ LoopTop
    \/ QueueEmpty
    \/ DequeueRaise
    \/ DequeueRun
    \/ ExecComplete
    \/ ExecFail
    \/ UpdateQuantumState
    \/ _cleanup_tasks
    \/ LoopWake

FairSpec == Init /\ [][Next]_vars /\ WF_vars(start_orchestrator) /\ WF_vars(LoopStep)

-----------------------------------------------------------------------------
(* Claims *)

InQueue(t) == \E i \in 1..Len(task_queue) : task_queue[i] = t

Terminal == {"completed", "failed"}

\* C1: when a task is taken from the queue, no task still waiting in the queue
\* has a strictly higher priority (a waiting task of higher priority is
\* dequeued first, whatever the order of submission).
C1_HigherPriorityDequeuedFirst ==
    [][(pc = "queue" /\ pc' = "exec")
         => \A i \in 1..Len(task_queue') :
               tasks[task_queue'[i]].priority <= tasks[cur'].priority]_vars

\* C2: a task is never running while one of its dependencies has not reached
\* status completed.
C2_NoRunWithOpenDependency ==
    \A t \in DOMAIN tasks :
        tasks[t].status = "running"
          => \A d \in tasks[t].dependencies :
                d \in DOMAIN tasks /\ tasks[d].status = "completed"

\* C3: a task one of whose dependencies has status failed is never dispatched
\* (never made running and handed to an inference operation).
C3_NoDispatchAfterFailedDependency ==
    [][\A t \in DOMAIN tasks :
          (tasks[t].status # "running" /\ tasks'[t].status = "running")
            => ~ \E d \in tasks[t].dependencies :
                    d \in DOMAIN tasks /\ tasks[d].status = "failed"]_vars

\* the status changes of one step that the lifecycle allows
StatusStep(a, b) ==
    \/ a = b
    \/ a = "pending" /\ b = "running"
    \/ a = "running" /\ b \in Terminal

\* C4: a task's status only moves pending -> running -> completed or failed: a
\* terminal status never changes again and running never returns to pending.
C4_StatusMonotonic ==
    [][\A t \in DOMAIN tasks : StatusStep(tasks[t].status, tasks'[t].status)]_vars

\* C5: under fair scheduling of the loop, every task waiting in the queue of a
\* running orchestrator eventually has a terminal status and a result_store
\* entry (unless the orchestrator is shut down first).
C5_EveryTaskTerminates ==
    \A t \in TaskIds :
        (is_running /\ InQueue(t))
          ~> (\/ ~is_running
              \/ /\ t \in DOMAIN tasks
                 /\ tasks[t].status \in Terminal
                 /\ result_store[t] # NoResult)

\* C6: an exception of a task's processing never reaches the except branch of
\* _orchestration_loop (it is caught at the task boundary), and a failed task
\* has an error entry in result_store.
C6_TaskErrorsCaughtAtTaskBoundary ==
    /\ pc # "errsleep"
    /\ \A t \in DOMAIN tasks :
          (tasks[t].status = "failed") => result_store[t] = [kind |-> "error"]

InUnit(x) == 0 <= x /\ x <= Scale

\* C7: after any number of ticks and event updates, in any order, every metric
\* of the quantum state (consciousness_level, quantum_coherence,
\* memory_coherence, learning_velocity) and every neural_activity value lies
\* in [0, 1].
C7_MetricsInUnitInterval ==
    /\ InUnit(quantum_state.consciousness_level)
    /\ InUnit(quantum_state.quantum_coherence)
    /\ InUnit(quantum_state.memory_coherence)
    /\ InUnit(quantum_state.learning_velocity)
    /\ \A r \in Regions : InUnit(quantum_state.neural_activity[r])

\* C7 witness: ticks and event updates have driven consciousness_level,
\* quantum_coherence and learning_velocity to the ceiling
C7_Witness ==
    /\ quantum_state.consciousness_level = Scale
    /\ quantum_state.quantum_coherence = Scale
    /\ quantum_state.learning_velocity = Scale
    /\ quantum_state.neural_activity # initialize_quantum_state.neural_activity

\* C8: learning_velocity never decreases from one state to the next; it grows
\* only in an event update (a step that leaves the tick's metrics alone) and
\* stays at 1.0 once there.
C8_VelocityNeverDecreases ==
    [][/\ quantum_state'.learning_velocity >= quantum_state.learning_velocity
       /\ quantum_state'.learning_velocity > quantum_state.learning_velocity
            => /\ quantum_state'.consciousness_level = quantum_state.consciousness_level
               /\ quantum_state'.quantum_coherence = quantum_state.quantum_coherence
               /\ quantum_state'.neural_activity = quantum_state.neural_activity
       /\ quantum_state.learning_velocity = Scale
            => quantum_state'.learning_velocity = Scale]_vars

\* C8 witness: the velocity has grown from 0.1 to the ceiling, with ticks
\* in between
C8_Witness ==
    /\ quantum_state.learning_velocity = Scale
    /\ quantum_state.consciousness_level > initialize_quantum_state.consciousness_level

\* two payloads with the same fields, whatever their order
StructurallyIdentical(p, q) ==
    {p[i] : i \in 1..Len(p)} = {q[i] : i \in 1..Len(q)}

Started(r) == reqs[r].pc # "idle"

\* C9: two process_request calls with structurally identical payloads get the
\* same cache key, and the backend is never working for both of them: the
\* second is answered from response_cache.
C9_IdenticalRequestsOneInvocation ==
    \A r1, r2 \in ReqIds :
        (r1 # r2 /\ Started(r1) /\ Started(r2)
           /\ StructurallyIdentical(reqs[r1].payload, reqs[r2].payload))
          => /\ cache_key(reqs[r1].payload) = cache_key(reqs[r2].payload)
             /\ ~(reqs[r1].pc = "await" /\ reqs[r2].pc = "await")

\* C10: an entry of response_cache, once written, is never replaced by a
\* different value.
C10_CacheEntryNeverReplaced ==
    [][\A k \in DOMAIN response_cache :
          k \in DOMAIN response_cache' /\ response_cache'[k] = response_cache[k]]_vars

\* the step in which process_request is called for request r
Called(r) == reqs[r].pc = "idle" /\ reqs'[r].pc # "idle"

\* C11: cache round trip. When process_request is called with a payload for
\* which an earlier call has completed successfully and stored its response R,
\* the call is answered from the cache and returns exactly R.
C11_CacheRoundTrip ==
    [][\A r, r1 \in ReqIds :
          (/\ Called(r)
           /\ reqs[r1].pc = "returned"
           /\ cache_key(reqs[r1].payload) = cache_key(reqs'[r].payload))
            => /\ reqs'[r].pc = "hit"
               /\ reqs'[r].response = reqs[r1].response]_vars

\* C12: a request that is not answered from the cache and whose routed agent
\* is registered but not ONLINE or PROCESSING is not dispatched: the call
\* raises before any backend work and leaves every agent's status and
\* counters as they were.
C12_NoDispatchToOfflineAgent ==
    [][\A r \in ReqIds :
          (/\ Called(r)
           /\ reqs'[r].pc # "hit"
           /\ reqs'[r].agent_name \in DOMAIN agents
           /\ agents[reqs'[r].agent_name].status \notin OnlineEquivalent)
            => /\ reqs'[r].pc = "raised"
               /\ agents' = agents]_vars

\* the prompt of the routed request has one of these keywords as a substring
\* of its lowercase form
Has(keywords) == AnyKeyword(Get(reqs[1].payload, "prompt", <<>>), keywords)

\* C13: _route_request returns the agent of the first row of the keyword
\* table that the lowercased prompt matches: claude for
\* analyze/strategy/plan/code, else gemini for creative/image/design/art, else
\* perplexity for search/fact/research/find, else the default claude.
C13_FirstMatchWins ==
    reqs[1].pc = "routed" =>
        reqs[1].agent_name =
            IF Has({"analyze", "strategy", "plan", "code"}) THEN "claude"
            ELSE IF Has({"creative", "image", "design", "art"}) THEN "gemini"
            ELSE IF Has({"search", "fact", "research", "find"}) THEN "perplexity"
            ELSE "claude"

\* C13 witness: a prompt matching the second and the third row, not the
\* first, has been routed to gemini
C13_Witness ==
    /\ reqs[1].pc = "routed"
    /\ ~Has({"analyze", "strategy", "plan", "code"})
    /\ Has({"creative", "image", "design", "art"})
    /\ Has({"search", "fact", "research", "find"})
    /\ reqs[1].agent_name = "gemini"

\* the tasks whose status is running
RunningTasks == {t \in DOMAIN tasks : tasks[t].status = "running"}

\* C14: at every instant the number of tasks with status running (so also of
\* those among them whose backend invocation is outstanding) is at most
\* max_workers.
C14_RunningWithinPool == Cardinality(RunningTasks) <= max_workers

\* C14 witness: max_workers tasks are running, the backend invocation of the
\* current one is outstanding, and another task waits in the queue
C14_Witness ==
    /\ pc = "exec"
    /\ cur \in RunningTasks
    /\ Cardinality(RunningTasks) = max_workers
    /\ \E i \in 1..Len(task_queue) : task_queue[i] # cur

\* C15: once shutdown() has set is_running to False, no step takes a task
\* from the task queue or makes a task running, whatever is still queued and
\* wherever the loop was when shutdown() was called.
C15_NoDequeueAfterShutdown ==
    [][(~is_running /\ pc # "init")
         => /\ Len(task_queue') >= Len(task_queue)
            /\ \A t \in DOMAIN tasks :
                  tasks'[t].status = "running" => tasks[t].status = "running"]_vars

\* get_task_result(task_id): self.result_store.get(task_id); NoResult is the
\* None that get returns for an identifier without an entry
get_task_result(t) == result_store[t]

\* C16: once result_store holds an entry for a task identifier,
\* get_task_result returns that same entry, quantum_state snapshot included,
\* after every later step (submission, loop step or tick).
C16_ResultNeverOverwritten ==
    [][\A t \in TaskIds :
          result_store[t] # NoResult
            => get_task_result(t)' = get_task_result(t)]_vars

\* at least two agents are ONLINE or PROCESSING
TwoAgentsOnline ==
    \E a, b \in DOMAIN agents :
        /\ a # b
        /\ agents[a].status \in {"ONLINE", "PROCESSING"}
        /\ agents[b].status \in {"ONLINE", "PROCESSING"}

\* C17: in every state, health_check reports 'healthy' exactly when at least
\* two agents are ONLINE or PROCESSING and awareness_level > 0.5 and
\* quantum_coherence > 0.8, and 'degraded' otherwise.
C17_HealthyIffQuorum ==
    health_check.status =
        IF /\ TwoAgentsOnline
           /\ 2 * consciousness_state.awareness_level > Scale
           /\ 10 * consciousness_state.quantum_coherence > 8 * Scale
        THEN "healthy" ELSE "degraded"

\* C17 witness: one agent is in ERROR, one of the two others is PROCESSING,
\* and health_check reports healthy
C17_Witness ==
    /\ \E a \in DOMAIN agents : agents[a].status = "ERROR"
    /\ \E a \in DOMAIN agents : agents[a].status = "PROCESSING"
    /\ \E a \in DOMAIN agents : agents[a].status = "ONLINE"
    /\ health_check.status = "healthy"

\* the required fields of a task are there (model_preference is the one the
\* model lets a caller leave out)
ValidTask(t) == t.model_preference # "None"

\* C18: a submit_task call either rejects the task, leaving the task queue,
\* active_tasks and result_store as they were, or appends a task with all its
\* required fields to the queue at once; a task with a missing field is
\* never queued.
C18_SubmitValidates ==
    [][submits' = submits + 1
         => \/ /\ task_queue' = task_queue
               /\ active_tasks' = active_tasks
               /\ result_store' = result_store
            \/ \E t \in DOMAIN tasks' :
                  /\ task_queue' = Append(task_queue, t)
                  /\ ValidTask(tasks'[t])]_vars

\* the queue without its i-th item
RemoveAt(q, i) == SubSeq(q, 1, i - 1) \o SubSeq(q, i + 1, Len(q))

\* C19: the task queue holds the waiting tasks in the order of their
\* submission (a submitted task goes behind the waiting ones), and a step that
\* takes a task from it takes one before which no task of the same priority
\* is waiting; if the task is executed, it is the one executed next.
C19_FifoAmongEqualPriority ==
    [][/\ Len(task_queue') > Len(task_queue)
            => \E t \in DOMAIN tasks' : task_queue' = Append(task_queue, t)
       /\ Len(task_queue') < Len(task_queue)
            => \E i \in 1..Len(task_queue) :
                  /\ task_queue' = RemoveAt(task_queue, i)
                  /\ \A j \in 1..(i - 1) :
                        tasks[task_queue[j]].priority # tasks[task_queue[i]].priority
                  /\ pc' = "exec" => cur' = task_queue[i]]_vars

\* C19 witness: a task is being executed while a task of the same priority
\* that was created and submitted after it still waits in the queue
C19_Witness ==
    /\ pc = "exec"
    /\ \E i \in 1..Len(task_queue) :
          /\ task_queue[i] > cur
          /\ tasks[task_queue[i]].priority = tasks[cur].priority

\* the states that k whole ticks and m whole event updates, run one after
\* another in any order, lead to from qs
RECURSIVE Serial(_, _, _)
Serial(qs, k, m) ==
    IF k = 0 /\ m = 0 THEN {qs}
    ELSE (IF k > 0 THEN Serial(WholeTick(qs), k - 1, m) ELSE {})
           \cup (IF m > 0 THEN Serial(WholeEvent(qs), k, m - 1) ELSE {})

\* no update is in progress
Quiescent == upd.tick_at = 0 /\ upd.tick_local = Unread /\ upd.event_local = Unread

\* C20: however the statements of the monitor thread's ticks and of the
\* loop's event updates interleave, once they have run to their end the
\* quantum_state is a state that the same ticks and event updates, each run
\* as a whole one after another in some order, produce: no update is lost.
C20_UpdatesSerializable ==
    Quiescent => quantum_state \in Serial(initialize_quantum_state, upd.ticks, upd.events)

\* C20 witness: an event update has read learning_velocity and not yet
\* assigned it while a tick is between two of its statements, after at least
\* one tick and one event update have run
C20_Witness ==
    /\ upd.tick_at > 0
    /\ upd.event_local # Unread
    /\ upd.ticks > 0
    /\ upd.events > 0

\* the step in which the backend invocation of request r ends
Ends(r) == reqs[r].pc = "await" /\ reqs'[r].pc # "await"

\* C21: a step that ends a backend invocation adds one to exactly one counter
\* of the chosen agent, processed_requests on success (the agent is left
\* ONLINE), error_count on failure (the agent is left in ERROR), and changes
\* no other counter of this or of any other agent.
C21_OneCounterPerOutcome ==
    [][\A r \in ReqIds :
          Ends(r) =>
            LET a == reqs[r].agent_name IN
              /\ \A b \in AgentNames \ {a} :
                    /\ agents'[b].processed_requests = agents[b].processed_requests
                    /\ agents'[b].error_count = agents[b].error_count
              /\ \/ /\ reqs'[r].pc = "returned"
                    /\ agents'[a].processed_requests = agents[a].processed_requests + 1
                    /\ agents'[a].error_count = agents[a].error_count
                    /\ agents'[a].status = "ONLINE"
                 \/ /\ reqs'[r].pc = "raised"
                    /\ agents'[a].error_count = agents[a].error_count + 1
                    /\ agents'[a].processed_requests = agents[a].processed_requests
                    /\ agents'[a].status = "ERROR"]_vars

\* C21 witness: an agent has had a success and a failure, each counted once,
\* and another agent a success
C21_Witness ==
    \E a, b \in AgentNames :
        /\ a # b
        /\ agents[a].processed_requests = 1
        /\ agents[a].error_count = 1
        /\ agents[b].processed_requests = 1
        /\ \A r \in ReqIds : reqs[r].pc \in {"returned", "raised"}

\* the rows of ai_tasks with this task_id
TaskRows(t) == {row \in db.ai_tasks : row.task_id = t}

\* C22: every task that has reached completed or failed has a row in the
\* ai_tasks table under its task_id, with its final status, and no task has
\* more than one row.
C22_TerminalTaskHasRecord ==
    \A t \in DOMAIN tasks :
        /\ Cardinality(TaskRows(t)) <= 1
        /\ tasks[t].status \in Terminal
             => \E row \in TaskRows(t) : row.status = tasks[t].status

\* the step in which a write to the database raises and is logged
WriteFails == db'.failed_writes = db.failed_writes + 1

\* C23: a step in which a persistence write fails writes nothing to the
\* database and changes the memory as the same step with a successful write
\* does: a tick updates quantum_state and touches no task, a completing task
\* gets status completed and its result entry; is_running stays as it is and
\* the loop goes on to the next task.
C23_WriteFailureLocal ==
    [][WriteFails =>
         /\ db'.quantum_states = db.quantum_states
         /\ db'.learning_experiences = db.learning_experiences
         /\ is_running' = is_running
         /\ active_tasks' = active_tasks
         /\ task_queue' = task_queue
         /\ \/ /\ quantum_state' = _update_consciousness_metrics(quantum_state)
               /\ UNCHANGED <<tasks, result_store, pc, cur>>
            \/ /\ pc = "exec"
               /\ pc' = "queue"
               /\ quantum_state' = quantum_state
               /\ tasks' = [tasks EXCEPT ![cur].status = "completed"]
               /\ result_store' = [result_store EXCEPT ![cur] =
                      [kind |-> "result",
                       model |-> _route_to_ai_model(tasks[cur].model_preference),
                       quantum_state |-> quantum_state]]]_vars

\* C23 witness: the write of a tick and the learning write of the first task
\* have failed; the tick has changed quantum_state, the first task is
\* completed with its result, and the loop is executing the second task
C23_Witness ==
    /\ db.failed_writes = 2
    /\ db.quantum_states = NoState
    /\ db.learning_experiences = 0
    /\ quantum_state = _update_consciousness_metrics(initialize_quantum_state)
    /\ tasks[1].status = "completed"
    /\ result_store[1].kind = "result"
    /\ pc = "exec"
    /\ cur = 2
    /\ tasks[2].status = "running"

\* C24: under fair scheduling of the loop, _process_task_queue always ends
\* and the iteration goes on to _update_quantum_state, even when callers keep
\* submitting tasks while earlier ones are executing (it handles at most a
\* fixed number of tasks per iteration).
C24_QueueProcessingEnds == (pc = "queue") ~> (pc = "update")

\* C25: for every task, get_task_result returns None exactly while the task
\* is pending or running; once it is completed the entry has a 'result' and
\* no 'error', once it is failed an 'error' and no 'result', also after
\* _cleanup_tasks has removed the task from active_tasks.
C25_ResultIffTerminal ==
    \A t \in DOMAIN tasks :
        /\ get_task_result(t) = NoResult <=> tasks[t].status \in {"pending", "running"}
        /\ get_task_result(t).kind = "result" <=> tasks[t].status = "completed"
        /\ get_task_result(t).kind = "error" <=> tasks[t].status = "failed"

\* the sum of f over the set S of agents
RECURSIVE SumOver(_, _)
SumOver(S, f) ==
    IF S = {} THEN 0
    ELSE LET a == CHOOSE x \in S : TRUE IN f[a] + SumOver(S \ {a}, f)

\* C26: in every state reached by concurrent process_request calls (cache
\* hits, successes and failures), total_processed equals the sum of
\* processed_requests over all agents.
C26_TotalIsSumOfAgents ==
    total_processed =
        SumOver(DOMAIN agents, [a \in DOMAIN agents |-> agents[a].processed_requests])

\* C26 witness: a request has succeeded, one has been answered from the cache
\* and one has failed
C26_Witness ==
    /\ \E r \in ReqIds : reqs[r].pc = "returned"
    /\ \E r \in ReqIds : reqs[r].pc = "hit"
    /\ \E r \in ReqIds : reqs[r].pc = "raised"
    /\ total_processed = 1

\* a process_request is between its dispatch to agent a and its outcome
InFlight(a) == \E r \in ReqIds : reqs[r].pc = "await" /\ reqs[r].agent_name = a

\* C27: whenever a request is in flight on an agent the agent's status is
\* PROCESSING, and the status is ONLINE only when no request is in flight on
\* the agent.
C27_StatusReflectsInFlight ==
    \A a \in DOMAIN agents :
        /\ InFlight(a) => agents[a].status = "PROCESSING"
        /\ agents[a].status = "ONLINE" => ~InFlight(a)

====
